---- MODULE Spec2Model ----
(***************************************************************************)
(* Model of collectfiles (src/lib.rs): the configuration builder           *)
(* (CollectFiles / CollectFilesConfigured) and the parallel traversal      *)
(* engine collect_files.                                                   *)
(*                                                                         *)
(* Paths are sequences of components, a component is a sequence of         *)
(* one-character strings; the empty sequence is PathBuf::default().        *)
(***************************************************************************)
EXTENDS Integers, Sequences, FiniteSets, TLC

VARIABLES pc, self, given, lastOp, written, fs, frames, result, opens

vars == <<pc, self, given, lastOp, written, fs, frames, result, opens>>

\* ---------------------------------------------------------------- bounds
\* largest level handed to with_depth
MaxDepth == 2
\* cap on the nesting of collect_files calls explored
MaxNest == 4

\* ---------------------------------------------------------------- Option
None == [some |-> FALSE]
Some(v) == [some |-> TRUE, val |-> v]

\* ---------------------------------------------------------------- paths
EmptyPath == << >>

cR == <<"r">>
cS == <<"s">>
cD == <<"d">>
cO == <<"o">>
fX == <<"x", ".", "m", "d">>
fB == <<"b", ".", "t", "x", "t">>
fY == <<"y", ".", "m", "d">>
fZ == <<"z", ".", "m", "d">>
fQ == <<"q", ".", "m", "d">>
\* a file name holding a byte that is not valid UTF-8
fN == <<"xFF", ".", "m", "d">>

pR == <<cR>>
pS == <<cR, cS>>
pD == <<cR, cS, cD>>
pO == <<cO>>

Join(dir, name) == Append(dir, name)

RECURSIVE Flatten(_)
Flatten(p) ==
    IF p = << >> THEN << >>
    ELSE IF Len(p) = 1 THEN p[1]
    ELSE p[1] \o <<"/">> \o Flatten(Tail(p))

IsText(p) == \A i \in 1..Len(p) : \A j \in 1..Len(p[i]) : p[i][j] # "xFF"

\* Path::to_str: the path as text, None when it is not valid UTF-8
to_str(p) == IF IsText(p) THEN Some(Flatten(p)) ELSE None

\* index of the last "." of a component that is not its first character, 0 if none
LastDot(c) ==
    LET ds == {i \in 2..Len(c) : c[i] = "."}
    IN IF ds = {} THEN 0 ELSE CHOOSE i \in ds : \A j \in ds : j <= i

\* Path::with_extension
with_extension(p, ext) ==
    IF p = << >> THEN p
    ELSE LET c == p[Len(p)]
             k == LastDot(c)
             stem == IF k = 0 THEN c ELSE SubSeq(c, 1, k - 1)
         IN [p EXCEPT ![Len(p)] = stem \o <<".">> \o ext]

\* ---------------------------------------------------------------- regex
reMd == <<".", "m", "d", "$">>
reS == <<"s", "/">>
reBad == <<"(">>
RegexStrs == {reMd, reS, reBad}

\* Regex::new: a pattern with an unclosed group does not compile
RegexNew(src) ==
    IF \E i \in 1..Len(src) : src[i] = "(" /\ ~ \E j \in (i+1)..Len(src) : src[j] = ")"
    THEN [ok |-> FALSE]
    ELSE [ok |-> TRUE, re |-> [prog |-> src]]

as_str(re) == re.prog

RECURSIVE MatchHere(_, _, _, _)
MatchHere(prog, k, text, i) ==
    IF k > Len(prog) THEN TRUE
    ELSE IF prog[k] = "$" /\ k = Len(prog) THEN i = Len(text) + 1
    ELSE IF prog[k] = "^" /\ k = 1 THEN i = 1 /\ MatchHere(prog, k + 1, text, i)
    ELSE IF i > Len(text) THEN FALSE
    ELSE IF prog[k] = "." THEN MatchHere(prog, k + 1, text, i + 1)
    ELSE text[i] = prog[k] /\ MatchHere(prog, k + 1, text, i + 1)

\* Regex::is_match: unanchored search
is_match(re, text) == \E i \in 1..(Len(text) + 1) : MatchHere(re.prog, 1, text, i)

\* ---------------------------------------------------------------- callbacks
HookFns == {"set_ext_mutated", "to_empty"}
extMutated == <<"m", "u", "t", "a", "t", "e", "d">>

ApplyHook(h, p) ==
    IF h = "set_ext_mutated" THEN with_extension(p, extMutated) ELSE EmptyPath

RecoverFns == {"notfound_to_other", "any_to_sub"}

\* the fn(io::Error) -> PathBuf given to with_unwrap_or_else; it may panic
ApplyRecover(f, kind) ==
    IF f = "notfound_to_other"
    THEN IF kind = "NotFound" THEN [panic |-> FALSE, path |-> pO]
         ELSE [panic |-> TRUE, path |-> EmptyPath]
    ELSE [panic |-> FALSE, path |-> pS]

\* ---------------------------------------------------------------- filesystem
UniverseDirs == {pR, pS, pD, pO}
UniverseFiles == {Join(pR, fX), Join(pR, fB), Join(pS, fY), Join(pD, fZ), Join(pO, fQ)}

\* order in which read_dir yields the names of a directory
NameOrder == <<fX, cS, fB, cD, fY, fN, fZ, fQ>>

Parent(p) == SubSeq(p, 1, Len(p) - 1)

Trees ==
    {t \in [dirs : SUBSET UniverseDirs, files : SUBSET UniverseFiles] :
        /\ \A d \in t.dirs : Len(d) > 1 => Parent(d) \in t.dirs
        /\ \A f \in t.files : Parent(f) \in t.dirs}

\* the trees in which every directory holds all the files it can
FullTrees == {t \in Trees : \A f \in UniverseFiles : Parent(f) \in t.dirs => f \in t.files}

\* a world is a tree plus its faults: denied = directories whose read is refused,
\* errs = directories whose listing yields one failing entry, nontext =
\* directories holding a file whose name is not valid UTF-8
FaultFree(t) == [dirs |-> t.dirs, files |-> t.files, denied |-> {}, errs |-> {},
                 nontext |-> {}]

OneFault(t) ==
    {[FaultFree(t) EXCEPT !.denied = {d}] : d \in t.dirs}
    \cup {[FaultFree(t) EXCEPT !.errs = {d}] : d \in t.dirs}
    \cup {[FaultFree(t) EXCEPT !.nontext = {d}, !.files = @ \cup {Join(d, fN)}] : d \in t.dirs}

Worlds == {FaultFree(t) : t \in Trees} \cup UNION {OneFault(t) : t \in FullTrees}

NoWorld == FaultFree([dirs |-> {}, files |-> {}])

OkEntry(name) == [ok |-> TRUE, name |-> name, kind |-> "none"]
ErrEntry == [ok |-> FALSE, name |-> EmptyPath, kind |-> "Other"]

Listing(w, dir) ==
    LET names == SelectSeq(NameOrder, LAMBDA n : Join(dir, n) \in w.dirs \cup w.files)
        oks == [i \in 1..Len(names) |-> OkEntry(names[i])]
    IN IF dir \in w.errs THEN Append(oks, ErrEntry) ELSE oks

\* fs::read_dir
read_dir(w, p) ==
    IF p \notin w.dirs
    THEN [ok |-> FALSE, kind |-> IF p \in w.files THEN "NotADirectory" ELSE "NotFound",
          entries |-> << >>]
    ELSE IF p \in w.denied
    THEN [ok |-> FALSE, kind |-> "PermissionDenied", entries |-> << >>]
    ELSE [ok |-> TRUE, kind |-> "none", entries |-> Listing(w, p)]

\* Path::is_dir
is_dir(w, p) == p \in w.dirs

\* ---------------------------------------------------------------- builder
new(root_dir) ==
    [configured |-> TRUE, root_dir |-> root_dir, depth |-> None, hook_fn |-> None,
     target_regex |-> None, unwrap_or_else |-> None]

\* the tuple struct CollectFiles(entry_dir): only the path is stored
CollectFiles(root_dir) ==
    [configured |-> FALSE, root_dir |-> root_dir, depth |-> None, hook_fn |-> None,
     target_regex |-> None, unwrap_or_else |-> None]

clone(cf) == new(cf.root_dir)

Configured_with_hook(s, hook_fn) == [s EXCEPT !.hook_fn = Some(hook_fn)]

\* with_depth starting again from the defaults
Configured_with_depth_reset(s, level) == [new(s.root_dir) EXCEPT !.depth = Some(level)]

Configured_with_depth(s, level) == [s EXCEPT !.depth = Some(level)]

\* panics when the pattern does not compile
Configured_with_target_regex(s, regex) ==
    LET c == RegexNew(regex)
    IN IF c.ok THEN [panic |-> FALSE, s |-> [s EXCEPT !.target_regex = Some(c.re)]]
       ELSE [panic |-> TRUE, s |-> s]

Configured_with_unwrap_or_else(s, f) == [s EXCEPT !.unwrap_or_else = Some(f)]

with_hook(s, hook_fn) ==
    IF s.configured THEN Configured_with_hook(s, hook_fn)
    ELSE Configured_with_hook(clone(s), hook_fn)

with_depth(s, level) ==
    IF s.configured THEN Configured_with_depth(s, level)
    ELSE Configured_with_depth(clone(s), level)

with_target_regex(s, regex) ==
    IF s.configured THEN Configured_with_target_regex(s, regex)
    ELSE Configured_with_target_regex(clone(s), regex)

with_unwrap_or_else(s, f) ==
    IF s.configured THEN Configured_with_unwrap_or_else(s, f)
    ELSE Configured_with_unwrap_or_else(clone(s), f)

as_root_dir(s) == s.root_dir

as_target_regex(s) ==
    IF s.configured
    THEN IF s.target_regex.some THEN Some(as_str(s.target_regex.val)) ELSE None
    ELSE None

as_hook(s) == IF s.configured THEN s.hook_fn ELSE None

as_depth(s) == IF s.configured THEN s.depth ELSE None

\* the arguments collect hands to collect_files
CollectArgs(s) ==
    IF s.configured
    THEN [dir |-> s.root_dir, depth |-> s.depth, hook_fn |-> s.hook_fn,
          target_regex |-> s.target_regex, unwrap_or_else |-> s.unwrap_or_else]
    ELSE [dir |-> s.root_dir, depth |-> None, hook_fn |-> None,
          target_regex |-> None, unwrap_or_else |-> None]

\* ---------------------------------------------------------------- collect_files, step by step
\* OpenDir with the recovery retried when the substitute fails too
OpenDir_retry(w, dir_path, rec) ==
    LET r1 == read_dir(w, dir_path)
    IN IF r1.ok
       THEN [panic |-> FALSE, dir |-> dir_path, calls |-> 0, tried |-> <<dir_path>>]
       ELSE IF ~ rec.some
       THEN [panic |-> TRUE, dir |-> EmptyPath, calls |-> 0, tried |-> <<dir_path>>]
       ELSE LET s == ApplyRecover(rec.val, r1.kind)
            IN IF s.panic
               THEN [panic |-> TRUE, dir |-> EmptyPath, calls |-> 1, tried |-> <<dir_path>>]
               ELSE LET r2 == read_dir(w, s.path)
                    IN IF r2.ok
                       THEN [panic |-> FALSE, dir |-> s.path, calls |-> 1,
                             tried |-> <<dir_path, s.path>>]
                       ELSE LET s2 == ApplyRecover(rec.val, r2.kind)
                            IN IF ~ s2.panic /\ read_dir(w, s2.path).ok
                               THEN [panic |-> FALSE, dir |-> s2.path, calls |-> 2,
                                     tried |-> <<dir_path, s.path, s2.path>>]
                               ELSE [panic |-> TRUE, dir |-> EmptyPath, calls |-> 2,
                                     tried |-> <<dir_path, s.path>>]

\* OpenDir with a failed read taken as an empty directory
OpenDir_swallow(w, dir_path, rec) ==
    LET r1 == read_dir(w, dir_path)
    IN IF r1.ok
       THEN [panic |-> FALSE, dir |-> dir_path, calls |-> 0, tried |-> <<dir_path>>]
       ELSE [panic |-> FALSE, dir |-> EmptyPath, calls |-> 0, tried |-> <<dir_path>>]

\* lines 203-209: read the directory; on failure the recovery function is asked
\* once for a substitute, which is read with unwrap()
OpenDir(w, dir_path, rec) ==
    LET r1 == read_dir(w, dir_path)
    IN IF r1.ok
       THEN [panic |-> FALSE, dir |-> dir_path, calls |-> 0, tried |-> <<dir_path>>]
       ELSE IF ~ rec.some
       THEN [panic |-> TRUE, dir |-> EmptyPath, calls |-> 0, tried |-> <<dir_path>>]
       ELSE LET s == ApplyRecover(rec.val, r1.kind)
            IN IF s.panic
               THEN [panic |-> TRUE, dir |-> EmptyPath, calls |-> 1, tried |-> <<dir_path>>]
               ELSE IF read_dir(w, s.path).ok
               THEN [panic |-> FALSE, dir |-> s.path, calls |-> 1,
                     tried |-> <<dir_path, s.path>>]
               ELSE [panic |-> TRUE, dir |-> EmptyPath, calls |-> 1,
                     tried |-> <<dir_path, s.path>>]

\* lines 213-220: the path of one entry of the listing
EntryPath(dir, e, rec) ==
    IF e.ok THEN [panic |-> FALSE, path |-> Join(dir, e.name)]
    ELSE IF rec.some THEN ApplyRecover(rec.val, e.kind)
    ELSE [panic |-> TRUE, path |-> EmptyPath]

\* DirAction with the budget test off by one
DirAction_offByOne(depth) ==
    IF depth.some
    THEN IF depth.val > 1 THEN [recurse |-> TRUE, depth |-> Some(depth.val - 1)]
         ELSE [recurse |-> FALSE, depth |-> depth]
    ELSE [recurse |-> TRUE, depth |-> depth]

\* DirAction descending also with an exhausted budget
DirAction_descendAtZero(depth) ==
    IF depth.some
    THEN [recurse |-> TRUE, depth |-> Some(IF depth.val > 0 THEN depth.val - 1 ELSE 0)]
    ELSE [recurse |-> TRUE, depth |-> depth]

\* lines 222-234: what the depth budget says about a subdirectory
DirAction(depth) ==
    IF depth.some
    THEN IF depth.val > 0 THEN [recurse |-> TRUE, depth |-> Some(depth.val - 1)]
         ELSE [recurse |-> FALSE, depth |-> depth]
    ELSE [recurse |-> TRUE, depth |-> depth]

\* FileEmit matching the file name instead of the whole path
FileEmit_nameOnly(path, hook_fn, target_regex) ==
    IF target_regex.some
    THEN LET t == to_str(<<path[Len(path)]>>)
         IN IF ~ t.some THEN [panic |-> TRUE, items |-> << >>]
            ELSE IF is_match(target_regex.val, t.val)
            THEN IF hook_fn.some
                 THEN [panic |-> FALSE, items |-> <<ApplyHook(hook_fn.val, path)>>]
                 ELSE [panic |-> FALSE, items |-> <<path>>]
            ELSE [panic |-> FALSE, items |-> <<EmptyPath>>]
    ELSE [panic |-> FALSE, items |-> <<path>>]

\* lines 236-250: what a file entry emits
FileEmit(path, hook_fn, target_regex) ==
    IF target_regex.some
    THEN LET t == to_str(path)
         IN IF ~ t.some THEN [panic |-> TRUE, items |-> << >>]
            ELSE IF is_match(target_regex.val, t.val)
            THEN IF hook_fn.some
                 THEN [panic |-> FALSE, items |-> <<ApplyHook(hook_fn.val, path)>>]
                 ELSE [panic |-> FALSE, items |-> <<path>>]
            ELSE [panic |-> FALSE, items |-> <<EmptyPath>>]
    ELSE [panic |-> FALSE, items |-> <<path>>]

\* the filter letting everything through
Keep_all(p) == TRUE

\* line 253: the filter predicate
Keep(p) == p # EmptyPath

\* items leaving flat_map pass the filter and are collected
Collected(out, items) == out \o SelectSeq(items, Keep)

NewFrame(o, depth) ==
    [dir |-> o.dir, depth |-> depth, next |-> 1, kids |-> 0, out |-> << >>]

Without(f, k) == [x \in (DOMAIN f) \ {k} |-> f[x]]

OpenRec(o, req) == [req |-> req, dir |-> o.dir, calls |-> o.calls, panic |-> o.panic,
                    tried |-> o.tried]

Args == CollectArgs(self)

\* ---------------------------------------------------------------- state machine
Roots == {pR}

Init ==
    /\ pc = "building"
    /\ \E r \in Roots : self = CollectFiles(r) /\ given = r
    /\ lastOp = "CollectFiles"
    /\ written = [depth |-> None, hook_fn |-> None, target_regex |-> None]
    /\ fs = NoWorld
    /\ frames = << >>
    /\ result = None
    /\ opens = << >>

WithDepth ==
    /\ pc = "building"
    /\ \E level \in 0..MaxDepth :
          /\ self' = with_depth(self, level)
          /\ written' = [written EXCEPT !.depth = Some(level)]
    /\ lastOp' = "with_depth"
    /\ UNCHANGED <<pc, given, fs, frames, result, opens>>

WithHook ==
    /\ pc = "building"
    /\ \E h \in HookFns :
          /\ self' = with_hook(self, h)
          /\ written' = [written EXCEPT !.hook_fn = Some(h)]
    /\ lastOp' = "with_hook"
    /\ UNCHANGED <<pc, given, fs, frames, result, opens>>

WithTargetRegex ==
    /\ pc = "building"
    /\ \E src \in RegexStrs :
          LET r == with_target_regex(self, src)
          IN IF r.panic
             THEN /\ pc' = "aborted"
                  /\ UNCHANGED <<self, written>>
             ELSE /\ self' = r.s
                  /\ written' = [written EXCEPT !.target_regex = Some(src)]
                  /\ pc' = pc
    /\ lastOp' = "with_target_regex"
    /\ UNCHANGED <<given, fs, frames, result, opens>>

WithUnwrapOrElse ==
    /\ pc = "building"
    /\ \E f \in RecoverFns : self' = with_unwrap_or_else(self, f)
    /\ lastOp' = "with_unwrap_or_else"
    /\ UNCHANGED <<pc, given, written, fs, frames, result, opens>>

Abort ==
    /\ pc' = "aborted"
    /\ frames' = << >>
    /\ result' = None

\* collect: the outermost call of collect_files opens the root
Collect ==
    /\ pc = "building"
    /\ \E w \in Worlds :
          /\ fs' = w
          /\ LET o == OpenDir(w, Args.dir, Args.unwrap_or_else)
             IN /\ opens' = (<< >> :> OpenRec(o, Args.dir))
                /\ IF o.panic THEN Abort
                   ELSE /\ pc' = "running"
                        /\ frames' = (<< >> :> [dir |-> o.dir, depth |-> Args.depth,
                                                next |-> 1, kids |-> 0, out |-> << >>])
                        /\ result' = None
    /\ lastOp' = "collect"
    /\ UNCHANGED <<self, given, written>>

\* a worker takes the next entry of the directory iterator (par_bridge hands
\* the entries out one at a time) and applies the closure of flat_map to it
Entry(id) ==
    /\ pc = "running"
    /\ id \in DOMAIN frames
    /\ frames[id].next <= Len(Listing(fs, frames[id].dir))
    /\ LET fr == frames[id]
           i == fr.next
           ep == EntryPath(fr.dir, Listing(fs, fr.dir)[i], Args.unwrap_or_else)
           done == [fr EXCEPT !.next = @ + 1]
       IN IF ep.panic THEN Abort /\ UNCHANGED opens
          ELSE IF is_dir(fs, ep.path)
          THEN LET da == DirAction(fr.depth)
               IN IF da.recurse
                  THEN /\ Len(id) + 1 < MaxNest
                       /\ LET o == OpenDir(fs, ep.path, Args.unwrap_or_else)
                          IN /\ opens' = (Append(id, i) :> OpenRec(o, ep.path)) @@ opens
                             /\ IF o.panic THEN Abort
                                ELSE /\ frames' = (Append(id, i) :> NewFrame(o, da.depth))
                                                  @@ [frames EXCEPT ![id] =
                                                        [done EXCEPT !.kids = @ + 1]]
                                     /\ UNCHANGED <<pc, result>>
                  ELSE /\ frames' = [frames EXCEPT ![id] =
                                       [done EXCEPT !.out = Collected(@, <<EmptyPath>>)]]
                       /\ UNCHANGED <<pc, result, opens>>
          ELSE LET fe == FileEmit(ep.path, Args.hook_fn, Args.target_regex)
               IN IF fe.panic THEN Abort /\ UNCHANGED opens
                  ELSE /\ frames' = [frames EXCEPT ![id] =
                                       [done EXCEPT !.out = Collected(@, fe.items)]]
                       /\ UNCHANGED <<pc, result, opens>>
    /\ UNCHANGED <<self, given, lastOp, written, fs>>

Finished(id) ==
    /\ id \in DOMAIN frames
    /\ frames[id].next > Len(Listing(fs, frames[id].dir))
    /\ frames[id].kids = 0

\* Return with the child's Vec replacing what the parent has collected
Return_overwrite(id) ==
    /\ pc = "running"
    /\ id # << >>
    /\ Finished(id)
    /\ LET par == SubSeq(id, 1, Len(id) - 1)
       IN frames' = Without([frames EXCEPT ![par] =
                        [@ EXCEPT !.kids = @ - 1,
                                  !.out = Collected(<< >>, frames[id].out)]], id)
    /\ UNCHANGED <<pc, self, given, lastOp, written, fs, result, opens>>

\* a nested collect_files returns its Vec, which is the flat_map output of the
\* parent's entry
Return(id) ==
    /\ pc = "running"
    /\ id # << >>
    /\ Finished(id)
    /\ LET par == SubSeq(id, 1, Len(id) - 1)
       IN frames' = Without([frames EXCEPT ![par] =
                        [@ EXCEPT !.kids = @ - 1,
                                  !.out = Collected(@, frames[id].out)]], id)
    /\ UNCHANGED <<pc, self, given, lastOp, written, fs, result, opens>>

\* the outermost collect_files returns to the caller of collect
ReturnRoot ==
    /\ pc = "running"
    /\ Finished(<< >>)
    /\ result' = Some(frames[<< >>].out)
    /\ frames' = << >>
    /\ pc' = "done"
    /\ UNCHANGED <<self, given, lastOp, written, fs, opens>>

Next ==
    \/ WithDepth
    \/ WithHook
    \/ WithTargetRegex
    \/ WithUnwrapOrElse
    \/ Collect
    \/ \E id \in DOMAIN frames : Entry(id)
    \/ \E id \in DOMAIN frames : Return(id)
    \/ ReturnRoot

Spec == Init /\ [][Next]_vars

\* ---------------------------------------------------------------- collect_files, as one sequential function
RECURSIVE collect_files(_, _, _, _, _, _)
RECURSIVE FlatMapFrom(_, _, _, _, _, _, _)

\* lines 211-254 over the entries i.. of an opened directory
FlatMapFrom(w, dir, i, depth, hook_fn, target_regex, unwrap_or_else) ==
    IF i > Len(Listing(w, dir)) THEN [panic |-> FALSE, v |-> << >>]
    ELSE LET ep == EntryPath(dir, Listing(w, dir)[i], unwrap_or_else)
             head ==
                 IF ep.panic THEN [panic |-> TRUE, v |-> << >>]
                 ELSE IF is_dir(w, ep.path)
                 THEN LET da == DirAction(depth)
                      IN IF da.recurse
                         THEN collect_files(w, ep.path, da.depth, hook_fn, target_regex,
                                            unwrap_or_else)
                         ELSE [panic |-> FALSE, v |-> <<EmptyPath>>]
                 ELSE LET fe == FileEmit(ep.path, hook_fn, target_regex)
                      IN [panic |-> fe.panic, v |-> fe.items]
         IN IF head.panic THEN [panic |-> TRUE, v |-> << >>]
            ELSE LET rest == FlatMapFrom(w, dir, i + 1, depth, hook_fn, target_regex,
                                         unwrap_or_else)
                 IN IF rest.panic THEN rest
                    ELSE [panic |-> FALSE, v |-> Collected(<< >>, head.v) \o rest.v]

collect_files(w, dir_path, depth, hook_fn, target_regex, unwrap_or_else) ==
    LET o == OpenDir(w, dir_path, unwrap_or_else)
    IN IF o.panic THEN [panic |-> TRUE, v |-> << >>]
       ELSE FlatMapFrom(w, o.dir, 1, depth, hook_fn, target_regex, unwrap_or_else)

\* ---------------------------------------------------------------- the traversal with an optional value per entry
\* (spec section 9: present/absent instead of the empty-path sentinel; every
\* present value is kept)
RECURSIVE collect_files_opt(_, _, _, _, _, _)
RECURSIVE OptFrom(_, _, _, _, _, _, _)

OptFrom(w, dir, i, depth, hook_fn, target_regex, unwrap_or_else) ==
    IF i > Len(Listing(w, dir)) THEN [panic |-> FALSE, v |-> << >>]
    ELSE LET ep == EntryPath(dir, Listing(w, dir)[i], unwrap_or_else)
             head ==
                 IF ep.panic THEN [panic |-> TRUE, v |-> << >>]
                 ELSE IF is_dir(w, ep.path)
                 THEN IF depth.some /\ depth.val = 0 THEN [panic |-> FALSE, v |-> << >>]
                      ELSE collect_files_opt(w, ep.path,
                               IF depth.some THEN Some(depth.val - 1) ELSE None,
                               hook_fn, target_regex, unwrap_or_else)
                 ELSE IF ~ target_regex.some THEN [panic |-> FALSE, v |-> <<ep.path>>]
                 ELSE IF ~ to_str(ep.path).some THEN [panic |-> TRUE, v |-> << >>]
                 ELSE IF ~ is_match(target_regex.val, to_str(ep.path).val)
                 THEN [panic |-> FALSE, v |-> << >>]
                 ELSE IF hook_fn.some
                 THEN [panic |-> FALSE, v |-> <<ApplyHook(hook_fn.val, ep.path)>>]
                 ELSE [panic |-> FALSE, v |-> <<ep.path>>]
         IN IF head.panic THEN [panic |-> TRUE, v |-> << >>]
            ELSE LET rest == OptFrom(w, dir, i + 1, depth, hook_fn, target_regex,
                                     unwrap_or_else)
                 IN IF rest.panic THEN rest
                    ELSE [panic |-> FALSE, v |-> head.v \o rest.v]

collect_files_opt(w, dir_path, depth, hook_fn, target_regex, unwrap_or_else) ==
    LET o == OpenDir(w, dir_path, unwrap_or_else)
    IN IF o.panic THEN [panic |-> TRUE, v |-> << >>]
       ELSE OptFrom(w, o.dir, 1, depth, hook_fn, target_regex, unwrap_or_else)

\* ---------------------------------------------------------------- vocabulary of the properties
Range(q) == {q[i] : i \in DOMAIN q}
Count(q, x) == Cardinality({i \in DOMAIN q : q[i] = x})
SameBag(a, b) == /\ Len(a) = Len(b)
                 /\ \A x \in Range(a) \cup Range(b) : Count(a, x) = Count(b, x)
NoDup(q) == \A i, j \in DOMAIN q : q[i] = q[j] => i = j

IsUnder(dir, p) == Len(p) > Len(dir) /\ SubSeq(p, 1, Len(dir)) = dir

Matches(p) ==
    \/ ~ Args.target_regex.some
    \/ to_str(p).some /\ is_match(Args.target_regex.val, to_str(p).val)

\* no read of the run has failed: the root is readable and no listing read so
\* far yields a failing entry
NoReadFault ==
    /\ \A id \in DOMAIN opens : opens[id].calls = 0 /\ ~ opens[id].panic
                                  /\ opens[id].dir \notin fs.errs

Done == pc = "done"

RefRun == collect_files(fs, Args.dir, Args.depth, Args.hook_fn, Args.target_regex,
                        Args.unwrap_or_else)
OptRun == collect_files_opt(fs, Args.dir, Args.depth, Args.hook_fn, Args.target_regex,
                            Args.unwrap_or_else)

\* ---------------------------------------------------------------- C1
\* the tree of the depth=1 scenario: root holds x.md and sub/, sub holds y.md;
\* with_depth(1), pattern ".md$", no hook
DepthOneScenario ==
    /\ Args.dir = pR
    /\ {d \in fs.dirs : d = pR \/ IsUnder(pR, d)} = {pR, pS}
    /\ {f \in fs.files : IsUnder(pR, f)} = {Join(pR, fX), Join(pS, fY)}
    /\ fs.denied = {} /\ fs.errs = {}
    /\ Args.depth = Some(1)
    /\ as_target_regex(self) = Some(reMd)
    /\ ~ Args.hook_fn.some

\* C1 as stated: in the depth=1 scenario collect returns exactly {root/x.md}.
C1_OnlyRootFile ==
    (Done /\ DepthOneScenario) => result.val = <<Join(pR, fX)>>

\* C1 (amended): in the depth=1 scenario collect returns root/x.md and
\* root/sub/y.md, each once: budget 1 lets sub be read with budget 0.
C1_DepthOneReadsSub ==
    (Done /\ DepthOneScenario) => SameBag(result.val, <<Join(pR, fX), Join(pS, fY)>>)

C1_Witness == Done /\ DepthOneScenario /\ \E id \in DOMAIN opens : Len(id) = 1

\* ---------------------------------------------------------------- C2
\* what a surviving file is shown as: the hook runs only on a pattern match
Shown(f) ==
    IF Args.target_regex.some /\ Args.hook_fn.some THEN ApplyHook(Args.hook_fn.val, f)
    ELSE f

DirectFiles == {f \in fs.files : Parent(f) = Args.dir /\ Matches(f)}

\* C2: with with_depth(0) only the root is ever read, and a run without read
\* faults returns exactly the (non-empty) emissions of the root's direct file
\* children that pass the pattern, each once.
C2_DepthZero ==
    /\ Args.depth = Some(0) => DOMAIN opens \subseteq {<< >>}
    /\ (Done /\ Args.depth = Some(0) /\ NoReadFault) =>
          /\ NoDup(result.val)
          /\ Range(result.val) = {Shown(f) : f \in DirectFiles} \ {EmptyPath}

C2_Witness ==
    /\ Done /\ Args.depth = Some(0) /\ NoReadFault
    /\ pS \in fs.denied /\ Join(pS, fY) \in fs.files
    /\ result.val # << >>

\* ---------------------------------------------------------------- C3
\* C3: with no depth limit and no hook, a run without read faults returns
\* exactly the files below the root whose full path matches the pattern (all of
\* them when no pattern is set), each once, and nothing else.
C3_AllMatchingFiles ==
    (Done /\ ~ Args.depth.some /\ ~ Args.hook_fn.some /\ NoReadFault) =>
        /\ NoDup(result.val)
        /\ Range(result.val) = {f \in fs.files : IsUnder(Args.dir, f) /\ Matches(f)}

C3_Witness ==
    /\ Done /\ ~ Args.depth.some /\ ~ Args.hook_fn.some /\ NoReadFault
    /\ as_target_regex(self) = Some(reMd)
    /\ Join(pD, fZ) \in Range(result.val)
    /\ Join(pR, fB) \in fs.files

\* ---------------------------------------------------------------- C4
\* C4 as stated, for the hook of the crate's example (set the extension) and no
\* depth limit: every file below the root that passes the pattern (every file
\* when no pattern is set) is returned as hook(path) and not as itself.
C4_HookOnEverySurvivor ==
    (Done /\ Args.hook_fn = Some("set_ext_mutated") /\ ~ Args.depth.some /\ NoReadFault) =>
        Range(result.val) =
            {ApplyHook("set_ext_mutated", f) :
                f \in {g \in fs.files : IsUnder(Args.dir, g) /\ Matches(g)}}

\* ---------------------------------------------------------------- C5
ExpectedBudget(id) ==
    IF Args.depth.some THEN Some(Args.depth.val - Len(id)) ELSE None

\* C5: a failed directory read asks the recovery function exactly once, the
\* substitute is read in its place with the budget the failed read had, a
\* failing substitute aborts, and when the root was substituted the result is
\* the traversal of the substitute.
C5_SingleShot ==
    /\ \A id \in DOMAIN opens :
          LET o == opens[id]
              r1 == read_dir(fs, o.req)
              rec == Args.unwrap_or_else
          IN /\ o.calls <= 1
             /\ r1.ok => (o.calls = 0 /\ o.dir = o.req /\ ~ o.panic)
             /\ (~ r1.ok /\ rec.some) =>
                   /\ o.calls = 1
                   /\ LET sub == ApplyRecover(rec.val, r1.kind)
                      IN IF sub.panic THEN o.panic
                         ELSE IF read_dir(fs, sub.path).ok
                         THEN ~ o.panic /\ o.dir = sub.path
                         ELSE o.panic
             /\ o.panic => pc = "aborted"
             /\ id \in DOMAIN frames =>
                   (frames[id].dir = o.dir /\ frames[id].depth = ExpectedBudget(id))
    /\ (Done /\ opens[<< >>].calls = 1) =>
          LET t == collect_files(fs, opens[<< >>].dir, Args.depth, Args.hook_fn,
                                 Args.target_regex, Args.unwrap_or_else)
          IN ~ t.panic /\ SameBag(result.val, t.v)

C5_Witness ==
    /\ Done
    /\ opens[<< >>].calls = 1
    /\ opens[<< >>].dir # Args.dir
    /\ result.val # << >>

\* ---------------------------------------------------------------- C6
\* C6: a collection is returned only by a run in which no branch failed: every
\* directory read succeeded or was recovered, no listing held a failing entry
\* without recovery, no file that had to be matched was not valid text; an
\* aborted run returns nothing; the stored pattern always compiles and a
\* pattern that does not compile aborts before collect is called.
C6_FatalNoPartial ==
    /\ result.some => pc = "done"
    /\ pc = "aborted" => (~ result.some /\ frames = << >>)
    /\ Done =>
          \A id \in DOMAIN opens :
             LET o == opens[id]
                 rec == Args.unwrap_or_else
             IN /\ \/ read_dir(fs, o.req).ok
                   \/ rec.some /\ Len(o.tried) = 2 /\ read_dir(fs, o.tried[2]).ok
                /\ Len(o.tried) >= 1 /\ read_dir(fs, o.tried[Len(o.tried)]).ok
                /\ \A i \in DOMAIN Listing(fs, o.dir) :
                      LET e == Listing(fs, o.dir)[i]
                      IN /\ ~ e.ok => rec.some
                         /\ (e.ok /\ ~ is_dir(fs, Join(o.dir, e.name))
                               /\ Args.target_regex.some)
                            => IsText(Join(o.dir, e.name))
    /\ self.target_regex.some => RegexNew(as_str(self.target_regex.val)).ok
    /\ (pc = "aborted" /\ lastOp = "with_target_regex") => (opens = << >> /\ fs = NoWorld)

C6_Witness ==
    /\ pc = "aborted"
    /\ \E id \in DOMAIN opens : Len(id) = 2 /\ opens[id].panic
    /\ \E id \in DOMAIN opens : Len(id) = 1 /\ ~ opens[id].panic

\* ---------------------------------------------------------------- C7
\* C7: whatever the interleaving of the workers, a run that returns returns the
\* multiset of paths the sequential evaluation of collect_files yields: nothing
\* is lost or duplicated by the per-level concatenation, only the order varies.
C7_SameMultiset ==
    Done => (~ RefRun.panic /\ SameBag(result.val, RefRun.v))

C7_Witness ==
    /\ Done
    /\ Len(result.val) >= 3
    /\ result.val # RefRun.v

\* ---------------------------------------------------------------- C8
C8_Accessors ==
    /\ as_root_dir(self) = given
    /\ as_depth(self) = written.depth
    /\ as_hook(self) = written.hook_fn
    /\ as_target_regex(self) = written.target_regex

Same(f) == self'[f] = self[f]

C8_FrameStep ==
    /\ Same("root_dir")
    /\ pc # "building" => self' = self
    /\ lastOp' = "with_depth" =>
          (Same("hook_fn") /\ Same("target_regex") /\ Same("unwrap_or_else"))
    /\ lastOp' = "with_hook" =>
          (Same("depth") /\ Same("target_regex") /\ Same("unwrap_or_else"))
    /\ lastOp' = "with_target_regex" =>
          (Same("depth") /\ Same("hook_fn") /\ Same("unwrap_or_else"))
    /\ lastOp' = "with_unwrap_or_else" =>
          (Same("depth") /\ Same("hook_fn") /\ Same("target_regex"))
    /\ lastOp' = "collect" => self' = self

\* C8: every builder operation leaves root_dir and the fields of the other
\* options unchanged, root_dir is the path given at construction, and the
\* accessors return the last value written (unset when never written).
C8_Builder == [](C8_Accessors) /\ [][C8_FrameStep]_vars

C8_Witness ==
    /\ pc = "building"
    /\ lastOp = "with_depth"
    /\ as_depth(self) = Some(0)
    /\ as_hook(self) = Some("to_empty")
    /\ as_target_regex(self) = Some(reS)
    /\ self.unwrap_or_else.some

\* ---------------------------------------------------------------- C9
TreeDepth == IF fs.dirs = {} THEN 0
             ELSE CHOOSE n \in {Len(d) : d \in fs.dirs} : \A d \in fs.dirs : Len(d) <= n

\* C9 as stated: the nesting of collect_files calls never exceeds the depth of
\* the tree, never exceeds budget+1 when a budget is set, and the budget at
\* nesting level k is d-k and not negative.
C9_NestingBounded ==
    \A id \in DOMAIN frames :
        /\ Len(id) + 1 <= TreeDepth
        /\ Args.depth.some =>
              (Len(id) <= Args.depth.val /\ frames[id].depth = ExpectedBudget(id))

\* ---------------------------------------------------------------- C10
\* C10 as stated: the returned collection is the collection of the
\* optional-value traversal and never holds the empty path.
C10_SentinelIsOptional ==
    Done => (SameBag(result.val, OptRun.v) /\ EmptyPath \notin Range(result.val))

\* C10 (amended): the returned collection is the collection of the
\* optional-value traversal with its empty paths dropped, and never holds the
\* empty path.
C10_SentinelIsOptionalMinusEmpty ==
    Done => /\ ~ OptRun.panic
            /\ SameBag(result.val, SelectSeq(OptRun.v, LAMBDA p : p # << >>))
            /\ EmptyPath \notin Range(result.val)

C10_Witness ==
    /\ Done
    /\ Args.hook_fn = Some("to_empty")
    /\ Count(OptRun.v, EmptyPath) >= 2
    /\ result.val = << >>

TypeOK == pc \in {"building", "running", "done", "aborted"}
====
